---- MODULE Spec2Model ----
(***************************************************************************)
(* AMC Intelligence Hub: the ingestion / analysis / digest pipeline of     *)
(* src/app.py (the Streamlit handlers) and src/gcp/main.py (the Cloud      *)
(* Function run_daily), over one shared Firestore database.                *)
(*                                                                         *)
(* Time is counted in whole seconds since 2024-01-01T00:00:00 UTC.  URLs   *)
(* are natural numbers (0 is the empty string).  Every Firestore call is   *)
(* one atomic step of a run; it may raise.                                 *)
(***************************************************************************)
EXTENDS Integers, Sequences, FiniteSets, TLC

\* ------------------------------------------------------------------ bounds
MaxUrl == 2          \* URLs a feed can carry in the pipeline specifications
MaxTotal == 2        \* largest "max total per run" a run is started with
MaxClock == 1        \* clock ticks in the pipeline specifications
MaxCalls == 3        \* direct upsert_news calls in SpecUpsert
MaxNews == 11        \* stored articles in the digest specification
MaxDigests == 1      \* presses of the digest button in the digest specification

\* ------------------------------------------------------- program constants
MIN_SCORE == 70
DigestTop == 10
RecentLimit == 250
RelevantScore == 60
MaxTopics == 4
HourSeconds == 3600
DaySeconds == 24 * HourSeconds
CloudWindowHours == 24

GEMINI_MODEL == "gemini-3-flash-preview"

DEPARTMENTS ==
    << "Finanzas y ROI",
       "FoodTech and Supply Chain",
       "Innovación y Tendencias",
       "Tecnología e Innovación",
       "Legal & Regulatory Affairs / Innovation" >>

DepartmentSet == { DEPARTMENTS[i] : i \in 1..Len(DEPARTMENTS) }

DefaultDepartment == "Innovación y Tendencias"

\* ------------------------------------------------------------ text helpers
\* The characters of the strings that reach sanitize_doc_id.
Chars(s) ==
    CASE s = "Finanzas y ROI" ->
           << "F","i","n","a","n","z","a","s"," ","y"," ","R","O","I" >>
      [] s = "FoodTech and Supply Chain" ->
           << "F","o","o","d","T","e","c","h"," ","a","n","d"," ",
              "S","u","p","p","l","y"," ","C","h","a","i","n" >>
      [] s = "Innovación y Tendencias" ->
           << "I","n","n","o","v","a","c","i","ó","n"," ","y"," ",
              "T","e","n","d","e","n","c","i","a","s" >>
      [] s = "Tecnología e Innovación" ->
           << "T","e","c","n","o","l","o","g","í","a"," ","e"," ",
              "I","n","n","o","v","a","c","i","ó","n" >>
      [] s = "Legal & Regulatory Affairs / Innovation" ->
           << "L","e","g","a","l"," ","&"," ","R","e","g","u","l","a","t","o","r","y"," ",
              "A","f","f","a","i","r","s"," ","/"," ",
              "I","n","n","o","v","a","t","i","o","n" >>

UpperLetters ==
    << "A","B","C","D","E","F","G","H","I","J","K","L","M",
       "N","O","P","Q","R","S","T","U","V","W","X","Y","Z" >>

LowerLetters ==
    << "a","b","c","d","e","f","g","h","i","j","k","l","m",
       "n","o","p","q","r","s","t","u","v","w","x","y","z" >>

Digits == << "0","1","2","3","4","5","6","7","8","9" >>

SeqRange(s) == { s[i] : i \in 1..Len(s) }

UpperSet == SeqRange(UpperLetters)

LowerOf == [c \in UpperSet |-> LowerLetters[CHOOSE i \in 1..Len(UpperLetters) : UpperLetters[i] = c]]

\* str.lower() on one character
LowerChar(c) == IF c \in UpperSet THEN LowerOf[c] ELSE c

DocIdCharSet == SeqRange(LowerLetters) \cup SeqRange(Digits) \cup {"_", "-"}

\* the character class [a-z0-9_-]
DocIdChar(c) == c \in DocIdCharSet

RECURSIVE SubRuns(_)
\* re.sub(r"[^a-z0-9_-]+", "_", s): every maximal run of other characters
\* becomes one underscore
SubRuns(s) ==
    IF s = << >> THEN << >>
    ELSE IF DocIdChar(Head(s)) THEN << Head(s) >> \o SubRuns(Tail(s))
    ELSE IF Len(s) > 1 /\ ~DocIdChar(s[2]) THEN SubRuns(Tail(s))
    ELSE << "_" >> \o SubRuns(Tail(s))

RECURSIVE LStrip(_)
LStrip(s) == IF s # << >> /\ Head(s) = "_" THEN LStrip(Tail(s)) ELSE s

RECURSIVE RStrip(_)
RStrip(s) ==
    IF s # << >> /\ s[Len(s)] = "_" THEN RStrip(SubSeq(s, 1, Len(s) - 1)) ELSE s

sanitize_doc_id(raw) ==
    RStrip(LStrip(SubRuns([i \in 1..Len(raw) |-> LowerChar(raw[i])])))

\* utcnow().date().isoformat() for a clock inside January 2024
DateLabel(t) ==
    LET d == (t \div DaySeconds) + 1
    IN  << "2","0","2","4","-","0","1","-", Digits[(d \div 10) + 1], Digits[(d % 10) + 1] >>

\* utcnow().strftime("%Y%m%dT%H%M%SZ"): one token per second
RunId(t) == t

\* sha256 of a URL: a fixed-length digest, one per URL string (collisions are
\* outside the model); the digests do not follow the order of the URLs
sha256(url) == (url * 7919) % 10007

\* --------------------------------------------------------- Firestore model
\* A collection is a function from document ids to documents.
EmptyCollection == [id \in {} |-> 0]

\* DocumentReference.get().exists
RefExists(coll, id) == id \in DOMAIN coll

\* DocumentReference.set(doc) with a generated id instead of the given one
\* (CollectionReference.add)
RefAdd(coll, id, doc) ==
    LET fresh == 20000 + Cardinality(DOMAIN coll)
    IN  [x \in (DOMAIN coll) \cup {fresh} |-> IF x = fresh THEN doc ELSE coll[x]]

\* DocumentReference.set(doc): the document at id becomes doc
RefSet(coll, id, doc) ==
    [x \in (DOMAIN coll) \cup {id} |-> IF x = id THEN doc ELSE coll[x]]

\* a merge that keeps the stored value of every field the document already
\* has (the fields are merged the wrong way round)
RefKeepOld(coll, id, doc) ==
    LET old == IF id \in DOMAIN coll THEN coll[id] ELSE [f \in {} |-> 0]
        new == [f \in (DOMAIN old) \cup (DOMAIN doc) |->
                   IF f \in DOMAIN old THEN old[f] ELSE doc[f]]
    IN  [x \in (DOMAIN coll) \cup {id} |-> IF x = id THEN new ELSE coll[x]]

\* DocumentReference.set(doc, merge=True): the fields of doc replace those of
\* the stored document, its other fields stay
RefSetMerge(coll, id, doc) ==
    LET old == IF id \in DOMAIN coll THEN coll[id] ELSE [f \in {} |-> 0]
        new == [f \in (DOMAIN old) \cup (DOMAIN doc) |->
                   IF f \in DOMAIN doc THEN doc[f] ELSE old[f]]
    IN  [x \in (DOMAIN coll) \cup {id} |-> IF x = id THEN new ELSE coll[x]]

\* ------------------------------------------------------------ article store
news_ref_for_url(url) == sha256(url)

\* the department upsert_news stores, without the fallback
StoredDepartmentRaw(departamento) == departamento

\* dept = analysis.departamento if analysis.departamento in DEPARTMENTS else ...
StoredDepartment(departamento) ==
    IF departamento \in DepartmentSet THEN departamento ELSE DefaultDepartment

\* analysis.topics[:4]
TopicsHead(topics) == SubSeq(topics, 1, IF Len(topics) < MaxTopics THEN Len(topics) ELSE MaxTopics)

\* the document upsert_news writes; mode is "streamlit" (src/app.py) or
\* "cloud_function" (src/gcp/main.py, which writes no is_relevant)
ArticleDoc(mode, url, a, source_name, t) ==
    LET core == [ title        |-> a.titulo_mejorado,
                  url          |-> url,
                  source       |-> source_name,
                  published_at |-> t,
                  analysis     |-> [ departamento      |-> StoredDepartment(a.departamento),
                                     resumen_ejecutivo |-> a.resumen,
                                     accion_sugerida   |-> a.accion,
                                     relevancia_score  |-> a.score,
                                     topics            |-> TopicsHead(a.topics),
                                     model             |-> GEMINI_MODEL ] ]
    IN  IF mode = "streamlit"
        THEN [f \in (DOMAIN core) \cup {"is_relevant"} |->
                 IF f = "is_relevant" THEN a.score >= RelevantScore ELSE core[f]]
        ELSE core

\* an existence test that looks the URL itself up, not its digest
UpsertSeesUrl(coll, url) == RefExists(coll, url)

\* if ref.get().exists: return False
UpsertSeesExisting(coll, url) == RefExists(coll, news_ref_for_url(url))

\* ref.set({...}) of upsert_news
UpsertWrite(coll, mode, url, a, source_name, t) ==
    RefSet(coll, news_ref_for_url(url), ArticleDoc(mode, url, a, source_name, t))

\* upsert_news called with nothing else running: the value returned and the
\* collection afterwards
upsert_news(coll, mode, url, a, source_name, t) ==
    IF UpsertSeesExisting(coll, url)
    THEN [ret |-> FALSE, coll |-> coll]
    ELSE [ret |-> TRUE,  coll |-> UpsertWrite(coll, mode, url, a, source_name, t)]

\* the Articles stored for a URL
ArticlesFor(coll, url) == { id \in DOMAIN coll : coll[id].url = url }

\* ------------------------------------------------------------------ digest
Min(a, b) == IF a < b THEN a ELSE b

Reverse(s) == [i \in 1..Len(s) |-> s[Len(s) + 1 - i]]

\* int(x.get("analysis", {}).get("relevancia_score", 0))
ScoreOf(n) == n.analysis.relevancia_score

\* one step of a stable ascending sort: x goes after every element whose
\* key is not larger
InsertAsc(sorted, x) ==
    LET k == Cardinality({ i \in 1..Len(sorted) : ScoreOf(sorted[i]) <= ScoreOf(x) })
    IN  SubSeq(sorted, 1, k) \o << x >> \o SubSeq(sorted, k + 1, Len(sorted))

RECURSIVE SortAsc(_)
SortAsc(s) ==
    IF s = << >> THEN << >>
    ELSE InsertAsc(SortAsc(SubSeq(s, 1, Len(s) - 1)), s[Len(s)])

\* sorted ascending and then reversed: equal scores come out in reverse order
SortAscThenReverse(s) == Reverse(SortAsc(s))

\* list.sort(key=score, reverse=True): CPython reverses the list, sorts it
\* stably in ascending key order and reverses it again
SortByScoreReverse(s) == Reverse(SortAsc(Reverse(s)))

\* the order in which a query returns documents: by published_at, ties by
\* document id, both in the direction of the order_by
OrderedDocs(coll, ids, descending) ==
    LET keys == { << coll[i].published_at, i >> : i \in ids }
        Before(a, b) ==
            IF descending
            THEN a[1] > b[1] \/ (a[1] = b[1] /\ a[2] > b[2])
            ELSE a[1] < b[1] \/ (a[1] = b[1] /\ a[2] < b[2])
        \* each document id with the number of documents returned before it
        ranked == { << Cardinality({ a \in keys : Before(a, b) }), b[2] >> : b \in keys }
    IN  [k \in 1..Cardinality(ids) |-> coll[(CHOOSE r \in ranked : r[1] = k - 1)[2]]]

\* load_recent_news(limit): order_by published_at DESCENDING, limit
load_recent_news(coll, limit) ==
    LET all == OrderedDocs(coll, DOMAIN coll, TRUE)
    IN  SubSeq(all, 1, Min(limit, Len(all)))

\* the window test with a strict lower bound
in_last_hours_strict(ts, hours, t) ==
    LET delta == t - ts
    IN  0 <= delta /\ delta < hours * HourSeconds

\* in_last_hours(ts, hours) called at time t
in_last_hours(ts, hours, t) ==
    LET delta == t - ts
    IN  0 <= delta /\ delta <= hours * HourSeconds

\* the Streamlit digest handler's candidates
StreamlitLastNews(coll, window_hours, t) ==
    SelectSeq(load_recent_news(coll, RecentLimit),
              LAMBDA n : in_last_hours(n.published_at, window_hours, t))

\* run_daily's candidates: where("published_at", ">=", cutoff), which
\* Firestore returns in ascending published_at order
CloudLastNews(coll, t) ==
    LET cutoff == t - CloudWindowHours * HourSeconds
    IN  OrderedDocs(coll, { id \in DOMAIN coll : coll[id].published_at >= cutoff }, FALSE)

\* dept_news = [n for n in last_news if departamento == dept and score >= min]
DeptNews(last_news, dept, min_score) ==
    SelectSeq(last_news, LAMBDA n : /\ n.analysis.departamento = dept
                                    /\ ScoreOf(n) >= min_score)

\* dept_news[:10]
TopTen(s) == SubSeq(s, 1, Min(DigestTop, Len(s)))

\* the ranked list of one department
RankedDeptNews(last_news, dept, min_score) ==
    TopTen(SortByScoreReverse(DeptNews(last_news, dept, min_score)))

\* build_digest_html: the rendering as the data it embeds
build_digest_html(dept, items, date_label) ==
    [ date_label |-> date_label,
      dept       |-> dept,
      rows       |-> IF items = << >>
                     THEN << "Sin noticias relevantes." >>
                     ELSE [i \in 1..Len(items) |->
                             [ url     |-> items[i].url,
                               title   |-> items[i].title,
                               resumen |-> items[i].analysis.resumen_ejecutivo,
                               accion  |-> items[i].analysis.accion_sugerida,
                               score   |-> items[i].analysis.relevancia_score,
                               topics  |-> TopicsHead(items[i].analysis.topics) ]] ]

\* [{"title": i.get("title"), "url": i.get("url")} for i in items]
ItemSummaries(items) ==
    [i \in 1..Len(items) |-> [title |-> items[i].title, url |-> items[i].url]]

\* raw = f"{date_label}__{dept}"; doc_id = sanitize_doc_id(raw)
DigestDocId(date_label, dept) ==
    sanitize_doc_id(date_label \o << "_", "_" >> \o Chars(dept))

\* the document save_digest writes (src/gcp/main.py writes no min_score and
\* no window_hours)
DigestDoc(mode, date_label, dept, items, html, min_score, window_hours, t) ==
    LET core == [ date       |-> date_label,
                  department |-> dept,
                  created_at |-> t,
                  items      |-> ItemSummaries(items),
                  html       |-> html ]
    IN  IF mode = "streamlit"
        THEN [f \in (DOMAIN core) \cup {"min_score", "window_hours"} |->
                 IF f = "min_score" THEN min_score
                 ELSE IF f = "window_hours" THEN window_hours
                 ELSE core[f]]
        ELSE core

save_digest(coll, mode, date_label, dept, items, html, min_score, window_hours, t) ==
    RefSetMerge(coll, DigestDocId(date_label, dept),
                DigestDoc(mode, date_label, dept, items, html, min_score, window_hours, t))

\* for dept in DEPARTMENTS: filter, sort, truncate, render, save
RECURSIVE ComposeDigests(_, _, _, _, _, _, _)
ComposeDigests(coll, mode, k, last_news, min_score, window_hours, t) ==
    IF k = 0 THEN coll
    ELSE LET before == ComposeDigests(coll, mode, k - 1, last_news, min_score, window_hours, t)
             dept == DEPARTMENTS[k]
             dept_news == RankedDeptNews(last_news, dept, min_score)
             date_label == DateLabel(t)
             html == build_digest_html(dept, dept_news, date_label)
         IN  save_digest(before, mode, date_label, dept, dept_news, html,
                         min_score, window_hours, t)

\* ------------------------------------------------------------- environment
Runs == {"r1", "r2"}

\* the sources collection: two feeds in use, one feed in use, none in use
TwoSources ==
    << [name |-> "A", type |-> "rss",  url |-> "feedA", enabled |-> TRUE],
       [name |-> "B", type |-> "rss",  url |-> "feedB", enabled |-> TRUE],
       [name |-> "C", type |-> "rss",  url |-> "feedC", enabled |-> FALSE],
       [name |-> "D", type |-> "atom", url |-> "feedD", enabled |-> TRUE] >>

OneSource ==
    << [name |-> "A", type |-> "rss",  url |-> "feedA", enabled |-> TRUE],
       [name |-> "C", type |-> "rss",  url |-> "feedC", enabled |-> FALSE] >>

NoSource == << [name |-> "C", type |-> "rss",  url |-> "feedC", enabled |-> FALSE] >>

SourceConfigs == { TwoSources, NoSource }

\* os.getenv("RUN_TOKEN", "") and os.getenv("GOOGLE_API_KEY")
EnvConfigs ==
    { [RUN_TOKEN |-> "secret", GOOGLE_API_KEY |-> "key"],
      [RUN_TOKEN |-> "",       GOOGLE_API_KEY |-> "key"],
      [RUN_TOKEN |-> "secret", GOOGLE_API_KEY |-> ""] }

\* the X-Run-Token header of a request
Tokens == {"", "secret", "wrong"}

\* what feedparser finds in a feed: entries with or without title and link
RawEntries ==
    { [title |-> "t", link |-> u, summary |-> ""] : u \in 0..MaxUrl }
      \cup { [title |-> "", link |-> 1, summary |-> ""] }

RawFeeds == UNION { [1..n -> RawEntries] : n \in 0..MaxTotal }

\* what the model answers, once validated by Analysis.model_validate_json
Topics5 == << "LLMs & Agents", "RAG & Search", "Automation", "Regulation", "FoodTech" >>

Analyses ==
    { [titulo_mejorado |-> "T1", resumen |-> "r", accion |-> "a",
       departamento |-> "Finanzas y ROI", topics |-> Topics5, score |-> 95],
      [titulo_mejorado |-> "T2", resumen |-> "r", accion |-> "a",
       departamento |-> "Marketing", topics |-> << >>, score |-> 70],
      [titulo_mejorado |-> "T3", resumen |-> "r", accion |-> "a",
       departamento |-> "Tecnología e Innovación", topics |-> << >>, score |-> 40] }

NoAnalysis == [titulo_mejorado |-> "", resumen |-> "", accion |-> "",
               departamento |-> "", topics |-> << >>, score |-> 0]

\* the sliders "Máx items por fuente" and "Máx total por corrida", and the
\* MAX_PER_SOURCE / MAX_TOTAL environment of the Cloud Function
AllCaps == [max_per_source : {1, MaxTotal}, max_total : {1, MaxTotal}]

\* the inputs of the runs that race: the same entry in every feed, caps out
\* of reach
RaceFeeds == { << [title |-> "t", link |-> 1, summary |-> ""] >> }
RaceCaps == { [max_per_source |-> MaxTotal, max_total |-> MaxTotal] }

\* -------------------------------------------------------------------- state
VARIABLES
    now,            \* the UTC clock, in seconds
    sources,        \* the sources collection
    env,            \* the Cloud Function's environment
    news_articles,  \* collection news_articles
    newsletters,    \* collection newsletters
    runs,           \* collection runs (the run ledger)
    proc,           \* the local state of each pipeline run
    calls,          \* the direct calls of upsert_news made so far (SpecUpsert)
    composed        \* the digest compositions made so far, latest last

vars == << now, sources, env, news_articles, newsletters, runs, proc, calls, composed >>

IdleProc ==
    [ pc |-> "idle", mode |-> "none", run_id |-> -1, sources |-> << >>, si |-> 0,
      name |-> "", items |-> << >>, ii |-> 0,
      total_done |-> 0, added |-> 0, analyzed |-> 0, errors |-> 0,
      skipped_existing |-> 0, digests |-> 0,
      a |-> NoAnalysis, probe |-> "none",
      max_per_source |-> 0, max_total |-> 0,
      resp |-> "none", has_record |-> FALSE, exc |-> "none", token |-> "none" ]

\* load_sources(): the enabled rss sources that have a url
load_sources(coll) ==
    SelectSeq(coll, LAMBDA s : s.enabled /\ s.type = "rss" /\ s.url # "")

\* fetch_rss that reads the whole feed: no [:max_items]
fetch_rss_uncapped(entries, max_items) ==
    LET kept == SelectSeq(entries, LAMBDA e : e.title # "" /\ e.link # 0)
    IN  [i \in 1..Len(kept) |->
            [title |-> kept[i].title, url |-> kept[i].link, summary |-> kept[i].summary]]

\* fetch_rss(url, max_items) on a feed holding the given entries
fetch_rss(entries, max_items) ==
    LET head == SubSeq(entries, 1, Min(max_items, Len(entries)))
        kept == SelectSeq(head, LAMBDA e : e.title # "" /\ e.link # 0)
    IN  [i \in 1..Len(kept) |->
            [title |-> kept[i].title, url |-> kept[i].link, summary |-> kept[i].summary]]

\* ------------------------------------------------------------ control flow
\* the loop over the sources: the next source is fetched, or the loop ends
EnterSource(p) ==
    IF p.si <= Len(p.sources) /\ p.total_done < p.max_total
    THEN [p EXCEPT !.pc = "sources"]
    ELSE [p EXCEPT !.pc = IF p.mode = "cloud_function" THEN "digest" ELSE "finalize",
                   !.name = "", !.si = 0]

\* the loop over the items of one source: item ii is taken up (total_done += 1),
\* or the loop ends and the next source is due
EnterItem(p) ==
    IF p.ii <= Len(p.items) /\ p.total_done < p.max_total
    THEN [p EXCEPT !.total_done = @ + 1,
                   !.a = NoAnalysis, !.probe = "none",
                   !.pc = IF p.mode = "streamlit" THEN "probe" ELSE "analyze"]
    ELSE EnterSource([p EXCEPT !.si = @ + 1, !.items = << >>, !.ii = 0,
                               !.a = NoAnalysis, !.probe = "none"])

NextItem(p) == EnterItem([p EXCEPT !.ii = @ + 1])

\* the exception of one item escaping to the handler of the whole run
ItemErrorFatal(p) == [p EXCEPT !.pc = "fatal", !.errors = @ + 1]

\* except Exception: errors += 1 (the item is dropped, the loop goes on)
ItemError(p) == NextItem([p EXCEPT !.errors = @ + 1, !.exc = "none"])

\* ---------------------------------------------------------------- run ledger
RunningDoc(mode, t) == [started_at |-> t, status |-> "running", mode |-> mode]

DoneDoc(p, t) ==
    IF p.mode = "streamlit"
    THEN [ finished_at |-> t, status |-> "done", sources |-> Len(p.sources),
           analyzed |-> p.analyzed, added |-> p.added,
           skipped_existing |-> p.skipped_existing, errors |-> p.errors,
           model |-> GEMINI_MODEL ]
    ELSE [ finished_at |-> t, status |-> "done", sources |-> Len(p.sources),
           analyzed |-> p.analyzed, added |-> p.added, errors |-> p.errors,
           digests |-> p.digests, min_score |-> MIN_SCORE ]

ErrorDoc(msg) == [status |-> "error", error |-> msg]

\* a run that has returned: only its ledger key, the header it came with and
\* its response remain
Ended(p, resp) ==
    [IdleProc EXCEPT !.pc = "ended", !.mode = p.mode, !.run_id = p.run_id,
                     !.has_record = p.has_record, !.resp = resp,
                     !.token = p.token]

\* ------------------------------------------------------------------ actions
Url(p) == p.items[p.ii].url

NoComposition == << >>

DigestStart == 3 * DaySeconds - 1

Tick ==
    /\ \/ now < MaxClock
       \/ now >= DigestStart /\ now < DigestStart + MaxClock
    /\ now' = now + 1
    /\ UNCHANGED << sources, env, news_articles, newsletters, runs, proc, calls, composed >>

\* src/app.py: the "Run Pipeline" button, up to the first source
BeginStreamlit(r, caps) ==
    /\ proc[r].pc = "idle"
    /\ \E cap \in caps, outcome \in {"ok", "sources_fail", "ledger_fail"} :
        LET srcs == load_sources(sources)
            p0 == [IdleProc EXCEPT !.mode = "streamlit",
                                   !.max_per_source = cap.max_per_source,
                                   !.max_total = cap.max_total]
        IN  IF outcome = "sources_fail"
            THEN /\ proc' = [proc EXCEPT ![r] = Ended(p0, "exception")]
                 /\ UNCHANGED runs
            ELSE IF srcs = << >>
            THEN /\ proc' = [proc EXCEPT ![r] = Ended(p0, "stopped")]
                 /\ UNCHANGED runs
            ELSE IF outcome = "ledger_fail"
            THEN /\ proc' = [proc EXCEPT ![r] = Ended(p0, "exception")]
                 /\ UNCHANGED runs
            ELSE /\ runs' = RefSetMerge(runs, RunId(now), RunningDoc("streamlit", now))
                 /\ proc' = [proc EXCEPT ![r] =
                        EnterSource([p0 EXCEPT !.run_id = RunId(now), !.has_record = TRUE,
                                               !.sources = srcs, !.si = 1])]
    /\ UNCHANGED << now, sources, env, news_articles, newsletters, calls, composed >>

\* src/gcp/main.py: run_daily, up to the first source
BeginCloud(r, caps, tokens) ==
    /\ proc[r].pc = "idle"
    /\ \E got \in tokens, cap \in caps, outcome \in {"ok", "sources_fail", "ledger_fail"} :
        LET srcs == load_sources(sources)
            p0 == [IdleProc EXCEPT !.mode = "cloud_function", !.token = got,
                                   !.max_per_source = cap.max_per_source,
                                   !.max_total = cap.max_total]
            p1 == [p0 EXCEPT !.run_id = RunId(now), !.has_record = TRUE]
        IN  IF env.RUN_TOKEN # "" /\ got # env.RUN_TOKEN
            THEN /\ proc' = [proc EXCEPT ![r] = Ended(p0, "401")]
                 /\ UNCHANGED runs
            ELSE IF env.GOOGLE_API_KEY = ""
            THEN /\ proc' = [proc EXCEPT ![r] = Ended(p0, "500")]
                 /\ UNCHANGED runs
            ELSE IF outcome = "ledger_fail"
            THEN /\ proc' = [proc EXCEPT ![r] = Ended(p0, "exception")]
                 /\ UNCHANGED runs
            ELSE /\ runs' = RefSetMerge(runs, RunId(now), RunningDoc("cloud_function", now))
                 /\ proc' = [proc EXCEPT ![r] =
                        IF outcome = "sources_fail"
                        THEN Ended(p1, "exception")
                        ELSE EnterSource([p1 EXCEPT !.sources = srcs, !.si = 1])]
    /\ UNCHANGED << now, sources, env, news_articles, newsletters, calls, composed >>

\* name = s.get("name", "RSS"); items = fetch_rss(s["url"], max_per_source),
\* which may raise
FetchSource(r, feeds) ==
    /\ proc[r].pc = "sources"
    /\ LET p == proc[r]
       IN  \/ proc' = [proc EXCEPT ![r] = [p EXCEPT !.pc = "fatal", !.exc = "FetchError"]]
           \/ \E feed \in feeds :
                proc' = [proc EXCEPT ![r] =
                            EnterItem([p EXCEPT !.name = p.sources[p.si].name,
                                                !.items = fetch_rss(feed, p.max_per_source),
                                                !.ii = 1])]
    /\ UNCHANGED << now, sources, env, news_articles, newsletters, runs, calls, composed >>

\* src/app.py: if news_ref_for_url(it["url"]).get().exists: skipped_existing += 1
Probe(r) ==
    /\ proc[r].pc = "probe"
    /\ \E fails \in BOOLEAN :
        LET p == proc[r]
        IN  proc' = [proc EXCEPT ![r] =
                IF fails THEN [p EXCEPT !.pc = "analyze", !.probe = "failed"]
                ELSE IF RefExists(news_articles, news_ref_for_url(Url(p)))
                THEN NextItem([p EXCEPT !.skipped_existing = @ + 1, !.probe = "found"])
                ELSE [p EXCEPT !.pc = "analyze", !.probe = "absent"]]
    /\ UNCHANGED << now, sources, env, news_articles, newsletters, runs, calls, composed >>

\* a = analyze_item(...); analyzed += 1
Analyze(r) ==
    /\ proc[r].pc = "analyze"
    /\ LET p == proc[r]
       IN  \/ proc' = [proc EXCEPT ![r] = ItemError([p EXCEPT !.exc = "AnalysisError"])]
           \/ \E a \in Analyses :
                LET p1 == [p EXCEPT !.a = a, !.analyzed = @ + 1]
                IN  proc' = [proc EXCEPT ![r] =
                        IF p.mode = "cloud_function" /\ a.score < MIN_SCORE
                        THEN NextItem(p1)
                        ELSE [p1 EXCEPT !.pc = "upsert_get"]]
    /\ UNCHANGED << now, sources, env, news_articles, newsletters, runs, calls, composed >>

\* upsert_news: if ref.get().exists: return False
UpsertGet(r) ==
    /\ proc[r].pc = "upsert_get"
    /\ \E fails \in BOOLEAN :
        LET p == proc[r]
        IN  proc' = [proc EXCEPT ![r] =
                IF fails THEN ItemError([p EXCEPT !.exc = "StoreError"])
                ELSE IF UpsertSeesExisting(news_articles, Url(p)) THEN NextItem(p)
                ELSE [p EXCEPT !.pc = "upsert_set"]]
    /\ UNCHANGED << now, sources, env, news_articles, newsletters, runs, calls, composed >>

\* upsert_news: ref.set({...}); return True; added += 1
UpsertSet(r) ==
    /\ proc[r].pc = "upsert_set"
    /\ \E fails \in BOOLEAN :
        LET p == proc[r]
        IN  IF fails
            THEN /\ proc' = [proc EXCEPT ![r] = ItemError([p EXCEPT !.exc = "StoreError"])]
                 /\ UNCHANGED news_articles
            ELSE /\ news_articles' = UpsertWrite(news_articles, p.mode, Url(p), p.a, p.name, now)
                 /\ proc' = [proc EXCEPT ![r] = NextItem([p EXCEPT !.added = @ + 1])]
    /\ UNCHANGED << now, sources, env, newsletters, runs, calls, composed >>

\* src/gcp/main.py: the digests of run_daily
CloudDigest(r) ==
    /\ proc[r].pc = "digest"
    /\ \E fails \in BOOLEAN :
        LET p == proc[r]
            last_news == CloudLastNews(news_articles, now)
        IN  IF fails
            THEN /\ proc' = [proc EXCEPT ![r] = [p EXCEPT !.pc = "fatal", !.exc = "StoreError"]]
                 /\ UNCHANGED << newsletters, composed >>
            ELSE /\ newsletters' = ComposeDigests(newsletters, "cloud_function", Len(DEPARTMENTS),
                                                  last_news, MIN_SCORE, CloudWindowHours, now)
                 /\ composed' = Append(composed,
                                [mode |-> "cloud_function", t |-> now,
                                 window_hours |-> CloudWindowHours, min_score |-> MIN_SCORE,
                                 last_news |-> last_news])
                 /\ proc' = [proc EXCEPT ![r] =
                                [p EXCEPT !.pc = "finalize", !.digests = Len(DEPARTMENTS)]]
    /\ UNCHANGED << now, sources, env, news_articles, runs, calls >>

\* run_ref.set({"finished_at": ..., "status": "done", ...}, merge=True)
Finalize(r) ==
    /\ proc[r].pc = "finalize"
    /\ \E fails \in BOOLEAN :
        LET p == proc[r]
        IN  IF fails
            THEN /\ proc' = [proc EXCEPT ![r] = [p EXCEPT !.pc = "fatal", !.exc = "StoreError"]]
                 /\ UNCHANGED runs
            ELSE /\ runs' = RefSetMerge(runs, p.run_id, DoneDoc(p, now))
                 /\ proc' = [proc EXCEPT ![r] = Ended(p, "done")]
    /\ UNCHANGED << now, sources, env, news_articles, newsletters, calls, composed >>

\* src/app.py: except Exception as e: run_ref.set({"status": "error", ...})
AbortStreamlit(r) ==
    /\ proc[r].pc = "fatal"
    /\ proc[r].mode = "streamlit"
    /\ runs' = RefSetMerge(runs, proc[r].run_id, ErrorDoc(proc[r].exc))
    /\ proc' = [proc EXCEPT ![r] = Ended(@, "error")]
    /\ UNCHANGED << now, sources, env, news_articles, newsletters, calls, composed >>

\* src/gcp/main.py: the handler of the try of run_daily
AbortCloud(r) ==
    /\ proc[r].pc = "fatal"
    /\ proc[r].mode = "cloud_function"
    /\ runs' = RefSetMerge(runs, proc[r].run_id, ErrorDoc(proc[r].exc))
    /\ proc' = [proc EXCEPT ![r] = Ended(@, "error")]
    /\ UNCHANGED << now, sources, env, news_articles, newsletters, calls, composed >>

\* ------------------------------------------------------ the pipeline, Spec
Init ==
    /\ now = 0
    /\ sources \in SourceConfigs
    /\ env = [RUN_TOKEN |-> "secret", GOOGLE_API_KEY |-> "key"]
    /\ news_articles = EmptyCollection
    /\ newsletters = EmptyCollection
    /\ runs = EmptyCollection
    /\ proc = [r \in Runs |-> IdleProc]
    /\ calls = << >>
    /\ composed = NoComposition

\* the steps of the runs R, which draw their inputs from the given sets
Pipeline(R, caps, tokens, feeds) ==
    \/ Tick
    \/ \E r \in R : BeginStreamlit(r, caps)
    \/ \E r \in R : BeginCloud(r, caps, tokens)
    \/ \E r \in R : FetchSource(r, feeds)
    \/ \E r \in R : Probe(r)
    \/ \E r \in R : Analyze(r)
    \/ \E r \in R : UpsertGet(r)
    \/ \E r \in R : UpsertSet(r)
    \/ \E r \in R : CloudDigest(r)
    \/ \E r \in R : Finalize(r)
    \/ \E r \in R : AbortStreamlit(r)
    \/ \E r \in R : AbortCloud(r)

\* one run, from its trigger to its end, over every input
Next == Pipeline({"r1"}, AllCaps, Tokens, RawFeeds)

Spec == Init /\ [][Next]_vars

\* ------------------- one run under every deployment configuration, SpecEnv
InitEnv ==
    /\ now = 0
    /\ sources = TwoSources
    /\ env \in EnvConfigs
    /\ news_articles = EmptyCollection
    /\ newsletters = EmptyCollection
    /\ runs = EmptyCollection
    /\ proc = [r \in Runs |-> IdleProc]
    /\ calls = << >>
    /\ composed = NoComposition

NextEnv == Pipeline({"r1"}, AllCaps, Tokens, RawFeeds)

SpecEnv == InitEnv /\ [][NextEnv]_vars

\* ------------------------------------- two uncoordinated runs, SpecRace
InitRace ==
    /\ now = 0
    /\ sources = OneSource
    /\ env = [RUN_TOKEN |-> "secret", GOOGLE_API_KEY |-> "key"]
    /\ news_articles = EmptyCollection
    /\ newsletters = EmptyCollection
    /\ runs = EmptyCollection
    /\ proc = [r \in Runs |-> IdleProc]
    /\ calls = << >>
    /\ composed = NoComposition

NextRace == Pipeline(Runs, RaceCaps, {"secret"}, RaceFeeds)

SpecRace == InitRace /\ [][NextRace]_vars

\* ------------------------------ upsert_news called directly, SpecUpsert
UpsertCallers == { [mode |-> "streamlit", source |-> "A"],
                   [mode |-> "cloud_function", source |-> "B"] }

UpsertAnalyses == { a \in Analyses : a.score >= MIN_SCORE }

StoredFor(coll, url) == { coll[id] : id \in ArticlesFor(coll, url) }

CallUpsert ==
    /\ Len(calls) < MaxCalls
    /\ \E c \in UpsertCallers, url \in 1..MaxUrl, a \in UpsertAnalyses :
        LET res == upsert_news(news_articles, c.mode, url, a, c.source, now)
        IN  /\ news_articles' = res.coll
            /\ calls' = Append(calls, [ url |-> url, a |-> a, t |-> now, ret |-> res.ret,
                                        before |-> StoredFor(news_articles, url),
                                        after  |-> StoredFor(res.coll, url) ])
    /\ UNCHANGED << now, sources, env, newsletters, runs, proc, composed >>

InitUpsert ==
    /\ now = 0
    /\ sources = TwoSources
    /\ env = [RUN_TOKEN |-> "secret", GOOGLE_API_KEY |-> "key"]
    /\ news_articles = EmptyCollection
    /\ newsletters = EmptyCollection
    /\ runs = EmptyCollection
    /\ proc = [r \in Runs |-> IdleProc]
    /\ calls = << >>
    /\ composed = NoComposition

NextUpsert == Tick \/ CallUpsert

SpecUpsert == InitUpsert /\ [][NextUpsert]_vars

\* ------------------------------------------ digest composition, SpecDigest
\* the sliders "Ventana de tiempo" and "Score mínimo para newsletter"
DigestOptions == { [window_hours |-> 24, min_score |-> 60],
                   [window_hours |-> 48, min_score |-> 95] }

\* src/app.py: the "Generar digest por departamento" button
GenerateDigests ==
    /\ Len(composed) < MaxDigests
    /\ \E opt \in DigestOptions :
        LET last_news == StreamlitLastNews(news_articles, opt.window_hours, now)
        IN  /\ newsletters' = ComposeDigests(newsletters, "streamlit", Len(DEPARTMENTS),
                                             last_news, opt.min_score, opt.window_hours, now)
            /\ composed' = Append(composed,
                           [mode |-> "streamlit", t |-> now,
                            window_hours |-> opt.window_hours, min_score |-> opt.min_score,
                            last_news |-> last_news])
    /\ UNCHANGED << now, sources, env, news_articles, runs, proc, calls >>

\* the articles an earlier ingestion left: n of them, their scores,
\* departments and ages repeating the pattern pat
Kinds == [ score : {40, 70, 95},
           dept  : {"Finanzas y ROI", "Innovación y Tendencias"},
           age   : {CloudWindowHours * HourSeconds - 1, CloudWindowHours * HourSeconds} ]

KindAnalysis(k) ==
    [titulo_mejorado |-> "T1", resumen |-> "r", accion |-> "a",
     departamento |-> k.dept, topics |-> << >>, score |-> k.score]

RECURSIVE StoredNews(_, _)
StoredNews(n, pat) ==
    IF n = 0 THEN EmptyCollection
    ELSE LET k == pat[((n - 1) % Len(pat)) + 1]
         IN  UpsertWrite(StoredNews(n - 1, pat), "streamlit", n, KindAnalysis(k), "A",
                         DigestStart - k.age)

\* an empty store, and stores around the size at which a digest is cut
StoreSizes == {0} \cup { n \in 1..MaxNews : n >= MaxNews - 2 }

\* a run_daily that found no source in use and stands before its digests
DigestRun ==
    [IdleProc EXCEPT !.pc = "digest", !.mode = "cloud_function",
                     !.run_id = RunId(DigestStart), !.has_record = TRUE,
                     !.max_per_source = MaxTotal, !.max_total = MaxTotal]

InitDigest ==
    /\ now = DigestStart
    /\ sources = NoSource
    /\ env = [RUN_TOKEN |-> "secret", GOOGLE_API_KEY |-> "key"]
    /\ \E n \in StoreSizes, pat \in [1..2 -> Kinds] : news_articles = StoredNews(n, pat)
    /\ newsletters = EmptyCollection
    /\ runs = RefSetMerge(EmptyCollection, RunId(DigestStart),
                          RunningDoc("cloud_function", DigestStart))
    /\ proc = [r \in Runs |-> IF r = "r1" THEN DigestRun ELSE IdleProc]
    /\ calls = << >>
    /\ composed = NoComposition

NextDigest == Tick \/ GenerateDigests \/ CloudDigest("r1")

SpecDigest == InitDigest /\ [][NextDigest]_vars

\* ------------------- digests over a store at the query limit, SpecLimit
\* the oldest article, ingested 24 hours before the first digest
OldKinds == { k \in Kinds : /\ k.age = CloudWindowHours * HourSeconds
                            /\ k.score >= MIN_SCORE }

\* the articles ingested after it, of no interest to any department
NewKinds == { k \in Kinds : /\ k.age = CloudWindowHours * HourSeconds - 1
                            /\ k.score < MIN_SCORE
                            /\ k.score < RelevantScore }

\* the store after upsert_news wrote n URLs: URL 1 with an analysis of kind
\* kOld, and a second later the URLs 2..n with analyses of kind kNew
LimitStore(n, kOld, kNew) ==
    LET UrlOf(id) == CHOOSE u \in 1..n : news_ref_for_url(u) = id
        KindOf(u) == IF u = 1 THEN kOld ELSE kNew
    IN  [id \in { news_ref_for_url(u) : u \in 1..n } |->
            ArticleDoc("streamlit", UrlOf(id), KindAnalysis(KindOf(UrlOf(id))), "A",
                       DigestStart - KindOf(UrlOf(id)).age)]

InitLimit ==
    /\ now = DigestStart
    /\ sources = NoSource
    /\ env = [RUN_TOKEN |-> "secret", GOOGLE_API_KEY |-> "key"]
    /\ \E n \in {RecentLimit, RecentLimit + 1}, kOld \in OldKinds, kNew \in NewKinds :
            news_articles = LimitStore(n, kOld, kNew)
    /\ newsletters = EmptyCollection
    /\ runs = RefSetMerge(EmptyCollection, RunId(DigestStart),
                          RunningDoc("cloud_function", DigestStart))
    /\ proc = [r \in Runs |-> IF r = "r1" THEN DigestRun ELSE IdleProc]
    /\ calls = << >>
    /\ composed = NoComposition

NextLimit == Tick \/ GenerateDigests \/ CloudDigest("r1")

SpecLimit == InitLimit /\ [][NextLimit]_vars

\* ================================================================== claims
Latest == composed[Len(composed)]

Stored(id) == news_articles[id]

\* C1 (SpecUpsert): when upsert_news is called for a URL that is not stored
\* and later called again for the same URL with the same analysis, the first
\* call returns true, the second returns false and leaves the stored document
\* as the first call wrote it, and exactly one Article is stored for the URL.
C1_DedupIdempotent ==
    \A i, j \in 1..Len(calls) :
        ( /\ i < j
          /\ calls[i].url = calls[j].url
          /\ calls[i].a = calls[j].a
          /\ calls[i].before = {} )
        => /\ calls[i].ret = TRUE
           /\ calls[j].ret = FALSE
           /\ calls[j].after = calls[j].before
           /\ calls[j].after = calls[i].after
           /\ Cardinality(calls[j].after) = 1
           /\ Cardinality(ArticlesFor(news_articles, calls[i].url)) = 1

\* two calls for one URL with the same analysis, the second at a later time
C1_Witness ==
    \E i, j \in 1..Len(calls) :
        /\ i < j
        /\ calls[i].url = calls[j].url
        /\ calls[i].a = calls[j].a
        /\ calls[i].before = {}
        /\ calls[i].t < calls[j].t
        /\ calls[j].ret = FALSE

\* C2 (SpecRace): however the existence checks and the writes of two runs
\* interleave, the store never holds more than one Article for a URL.
C2_OneArticlePerUrl ==
    \A url \in 1..MaxUrl : Cardinality(ArticlesFor(news_articles, url)) <= 1

\* both runs have written (each counts one added item) and one Article is stored
C2_Witness ==
    /\ proc["r1"].added = 1
    /\ proc["r2"].added = 1
    /\ Cardinality(DOMAIN news_articles) = 1

\* C3 (SpecRace): once an Article is stored, no step of any run changes or
\* deletes it.
C3_FirstWriteAuthoritative ==
    [][ \A id \in DOMAIN news_articles :
            /\ id \in DOMAIN news_articles'
            /\ news_articles'[id] = news_articles[id] ]_vars

\* the ranking of a candidate list written from its definition: the
\* candidates of the department at or above the threshold, each placed after
\* those with a higher score and after the earlier ones with the same score,
\* the first ten of them
Qualifying(last_news, dept, min_score) ==
    { i \in 1..Len(last_news) :
        /\ last_news[i].analysis.departamento = dept
        /\ last_news[i].analysis.relevancia_score >= min_score }

RankIn(last_news, Q, i) ==
    Cardinality({ m \in Q :
        \/ last_news[m].analysis.relevancia_score > last_news[i].analysis.relevancia_score
        \/ /\ last_news[m].analysis.relevancia_score = last_news[i].analysis.relevancia_score
           /\ m < i })

ExpectedItems(last_news, dept, min_score) ==
    LET Q == Qualifying(last_news, dept, min_score)
        len == IF Cardinality(Q) < 10 THEN Cardinality(Q) ELSE 10
    IN  [r \in 1..len |->
            LET i == CHOOSE m \in Q : RankIn(last_news, Q, m) = r - 1
            IN  [title |-> last_news[i].title, url |-> last_news[i].url]]

DigestOf(c, dept) == newsletters[DigestDocId(DateLabel(c.t), dept)]

\* C4 (SpecDigest): after a composition, the item list stored for each
\* department is the in-window candidates of that department with score >=
\* minScore, by descending score, equal scores in candidate order, cut to 10.
C4_DigestRanking ==
    composed # << >> =>
        \A dept \in DepartmentSet :
            DigestOf(Latest, dept).items =
                ExpectedItems(Latest.last_news, dept, Latest.min_score)

\* a department with more than ten qualifying candidates, of two scores
C4_Witness ==
    /\ composed # << >>
    /\ \E dept \in DepartmentSet :
        LET Q == Qualifying(Latest.last_news, dept, Latest.min_score)
        IN  /\ Cardinality(Q) > 10
            /\ Len(DigestOf(Latest, dept).items) = 10
            /\ \E i, j \in Q : /\ i < j
                               /\ ScoreOf(Latest.last_news[i]) < ScoreOf(Latest.last_news[j])
            /\ \E i, j \in Q : /\ i < j
                               /\ ScoreOf(Latest.last_news[i]) = ScoreOf(Latest.last_news[j])

\* C5 (SpecDigest): the newsletters hold at most one document per (date,
\* department); after a composition the document of each department of that
\* date holds the item list and the rendering of that composition alone.
C5_DigestKeyIdempotent ==
    /\ \A k1, k2 \in DOMAIN newsletters :
        ( /\ newsletters[k1].date = newsletters[k2].date
          /\ newsletters[k1].department = newsletters[k2].department ) => k1 = k2
    /\ composed # << >> =>
        \A dept \in DepartmentSet :
            LET ranked == RankedDeptNews(Latest.last_news, dept, Latest.min_score)
                doc == DigestOf(Latest, dept)
            IN  /\ doc.date = DateLabel(Latest.t)
                /\ doc.department = dept
                /\ doc.items = ItemSummaries(ranked)
                /\ doc.html = build_digest_html(dept, ranked, DateLabel(Latest.t))

\* a second composition for the same date whose list for some department
\* differs from the non-empty list of the first
C5_Witness ==
    /\ Len(composed) >= 2
    /\ LET prev == composed[Len(composed) - 1]
       IN  /\ DateLabel(prev.t) = DateLabel(Latest.t)
           /\ Cardinality(DOMAIN newsletters) = Len(DEPARTMENTS)
           /\ \E dept \in DepartmentSet :
                LET before == RankedDeptNews(prev.last_news, dept, prev.min_score)
                    after == RankedDeptNews(Latest.last_news, dept, Latest.min_score)
                IN  before # << >> /\ before # after

InWindow(c, ts) == c.t - c.window_hours * HourSeconds <= ts /\ ts <= c.t

\* C6 (SpecDigest): a composition at time now with window W keeps exactly
\* the stored articles whose ingestion time t has now - W hours <= t <= now.
C6_WindowBoundary ==
    composed # << >> =>
        \A id \in DOMAIN news_articles :
            (\E i \in 1..Len(Latest.last_news) : Latest.last_news[i] = Stored(id))
                <=> InWindow(Latest, Stored(id).published_at)

\* one article exactly W hours old is kept, one a second older is dropped
C6_Witness ==
    /\ composed # << >>
    /\ \E id1, id2 \in DOMAIN news_articles :
        /\ Stored(id1).published_at = Latest.t - Latest.window_hours * HourSeconds
        /\ Stored(id2).published_at = Latest.t - Latest.window_hours * HourSeconds - 1
        /\ \E i \in 1..Len(Latest.last_news) : Latest.last_news[i] = Stored(id1)
        /\ \A i \in 1..Len(Latest.last_news) : Latest.last_news[i] # Stored(id2)

\* the analysis an Article was written from (the titles tell the analyses apart)
AnalysisOf(doc) == CHOOSE a \in Analyses : a.titulo_mejorado = doc.title

\* C7 (Spec): every stored Article has a department of the enumeration; an
\* analysis with any other department is stored under the default department.
C7_DepartmentFallback ==
    \A id \in DOMAIN news_articles :
        /\ Stored(id).analysis.departamento \in DepartmentSet
        /\ Stored(id).analysis.departamento =
              IF AnalysisOf(Stored(id)).departamento \in DepartmentSet
              THEN AnalysisOf(Stored(id)).departamento
              ELSE DefaultDepartment

\* an Article stored from an analysis whose department is not in the enumeration
C7_Witness ==
    \E id \in DOMAIN news_articles :
        /\ AnalysisOf(Stored(id)).departamento \notin DepartmentSet
        /\ Stored(id).analysis.departamento = DefaultDepartment

\* C8 (Spec): no run that has ended leaves its record in status running.
C8_RunLedgerFinalized ==
    \A r \in Runs :
        (proc[r].pc = "ended" /\ proc[r].has_record)
            => runs[proc[r].run_id].status # "running"

AnalyzerCalled(r) == proc[r].pc = "analyze" /\ proc'[r] # proc[r]

AnalyzerFailed(r) == AnalyzerCalled(r) /\ proc'[r].analyzed = proc[r].analyzed

InItemLoop(p) == p.pc \in {"probe", "analyze", "upsert_get", "upsert_set"}

\* C9 (Spec): a failed Analyzer call adds one to the error counter, writes no
\* Article, is not repeated for the item, and the run goes on with the next
\* item; the failure never reaches the handler of the run, so it never sets
\* the status error.
C9_ItemErrorIsolated ==
    /\ [][ \A r \in Runs : AnalyzerFailed(r) =>
            /\ proc'[r].errors = proc[r].errors + 1
            /\ proc'[r].added = proc[r].added
            /\ news_articles' = news_articles
            /\ runs' = runs
            /\ proc'[r].pc \in {"probe", "analyze", "sources", "digest", "finalize"}
            /\ InItemLoop(proc'[r]) =>
                  /\ proc'[r].si = proc[r].si
                  /\ proc'[r].ii = proc[r].ii + 1
            /\ ( /\ proc[r].ii < Len(proc[r].items)
                 /\ proc[r].total_done < proc[r].max_total ) => InItemLoop(proc'[r]) ]_vars
    /\ [](\A r \in Runs : proc[r].pc = "fatal" => proc[r].exc # "AnalysisError")
    /\ [](\A id \in DOMAIN runs :
            runs[id].status = "error" => runs[id].error # "AnalysisError")

\* a run that ended with status done after one failed analysis and one
\* analysis that was stored
C9_Witness ==
    \E id \in DOMAIN runs :
        /\ runs[id].status = "done"
        /\ runs[id].errors = 1
        /\ runs[id].analyzed = 1
        /\ runs[id].added = 1

\* C10 (Spec): the Analyzer is called for an item whose URL is stored only
\* when the existence probe failed.
C10_NoAnalysisOfStoredUrl ==
    [][ \A r \in Runs :
            ( /\ AnalyzerCalled(r)
              /\ RefExists(news_articles, news_ref_for_url(Url(proc[r]))) )
            => proc[r].probe = "failed" ]_vars

AnalyzerSucceeded(r) == AnalyzerCalled(r) /\ proc'[r].analyzed = proc[r].analyzed + 1

\* C11 (Spec): an item the Analyzer analyzed successfully and whose URL is
\* not stored goes on, whatever its score, to upsert_news, which stores it.
C11_StoreAll ==
    [][ \A r \in Runs :
            ( /\ AnalyzerSucceeded(r)
              /\ ~RefExists(news_articles, news_ref_for_url(Url(proc[r]))) )
            => /\ proc'[r].pc = "upsert_get"
               /\ proc'[r].ii = proc[r].ii
               /\ proc'[r].si = proc[r].si ]_vars

\* C12 (SpecEnv): a run_daily request whose X-Run-Token header differs from
\* the configured RUN_TOKEN is answered 401 and creates no run record, calls
\* no Analyzer and writes no article and no digest.
C12_TriggerGuard ==
    \A r \in Runs :
        ( /\ proc[r].mode = "cloud_function"
          /\ proc[r].token # env.RUN_TOKEN )
        => /\ proc[r].pc = "ended"
           /\ proc[r].resp = "401"
           /\ ~proc[r].has_record
           /\ runs = EmptyCollection
           /\ news_articles = EmptyCollection
           /\ newsletters = EmptyCollection

FetchCalled(r) == proc[r].pc = "sources" /\ proc'[r] # proc[r]

ProbeCalled(r) == proc[r].pc = "probe" /\ proc'[r] # proc[r]

\* C13 (Spec): a run takes at most max_per_source items from a source and
\* processes at most max_total items in all; a source is fetched, and an item
\* probed or analyzed, only while the items taken up do not exceed max_total.
C13_RunCaps ==
    /\ [](\A r \in Runs :
            /\ Len(proc[r].items) <= proc[r].max_per_source
            /\ proc[r].ii <= proc[r].max_per_source + 1
            /\ proc[r].total_done <= proc[r].max_total
            /\ proc[r].analyzed + proc[r].skipped_existing <= proc[r].max_total)
    /\ [][ \A r \in Runs :
            /\ FetchCalled(r) => proc[r].total_done < proc[r].max_total
            /\ (ProbeCalled(r) \/ AnalyzerCalled(r)) =>
                  /\ proc[r].ii <= proc[r].max_per_source
                  /\ proc[r].total_done <= proc[r].max_total
            /\ ( /\ proc[r].total_done = proc[r].max_total
                 /\ proc[r].total_done > 0 )
               => /\ proc'[r].total_done \in {proc[r].total_done, 0}
                  /\ proc'[r].pc # "sources" ]_vars

\* the total cap ends a run inside a source: the run is at the item that
\* reaches max_total and the source has more items
C13_Witness ==
    \E r \in Runs :
        /\ InItemLoop(proc[r])
        /\ proc[r].total_done = proc[r].max_total
        /\ proc[r].ii < Len(proc[r].items)
        /\ Len(proc[r].items) = proc[r].max_per_source

\* C14 (Spec): when the loop of a run is over, every item it took up is
\* counted once, as analyzed, as skipped or as an error, and no more items
\* are counted as added than as analyzed.
C14_CounterAccounting ==
    \A r \in Runs :
        proc[r].pc \in {"digest", "finalize"} =>
            /\ proc[r].analyzed + proc[r].skipped_existing + proc[r].errors
                  = proc[r].total_done
            /\ proc[r].added <= proc[r].analyzed

\* the stored score of a digest item
ItemScore(item) == ScoreOf(Stored(news_ref_for_url(item.url)))

\* C15 (SpecLimit): after a composition, a stored article of a department
\* that lies in the window and has score >= minScore is left out of the
\* department's digest only when the digest has 10 items, none of them with a
\* strictly lower score.
C15_DigestComplete ==
    composed # << >> =>
        \A dept \in DepartmentSet, id \in DOMAIN news_articles :
            LET items == DigestOf(Latest, dept).items
            IN  ( /\ Stored(id).analysis.departamento = dept
                  /\ ScoreOf(Stored(id)) >= Latest.min_score
                  /\ InWindow(Latest, Stored(id).published_at)
                  /\ \A i \in 1..Len(items) : items[i].url # Stored(id).url )
                => /\ Len(items) = DigestTop
                   /\ \A i \in 1..Len(items) : ItemScore(items[i]) >= ScoreOf(Stored(id))

====
